---- MODULE Spec2Model ----
(***************************************************************************)
(* A model of the two pollers of github-webhook-watcher:                   *)
(*   - intra_deploy/main.py: poll_messages with its exponential backoff    *)
(*     (specification SpecIntra, the i_ variables);                        *)
(*   - webhookclient/main.py: main, run_poller, process_messages,          *)
(*     process_webhook_payload, update_local and the process supervisor    *)
(*     (specification Spec; specification SpecPayload runs one             *)
(*     process_webhook_payload over the full event domain).                *)
(* Further specifications look at one part each: SpecSync at update_local  *)
(* on a changing repository, SpecSupervisor at the supervisor's operations *)
(* in any environment, SpecSignal at handle_shutdown arriving inside a     *)
(* handler, SpecPoll at one poll_messages and SpecVerify at one            *)
(* verify_webhook.                                                         *)
(***************************************************************************)
EXTENDS Integers, Sequences, FiniteSets, TLC

VARIABLES
    \* ---- intra_deploy.poll_messages
    i_pc,          \* "loop": at the while test, "sleeping": inside time.sleep, "returned"
    i_max,         \* max_iterations; i_unbounded stands for max_iterations = None
    i_unbounded,
    i_iter,        \* iterations
    i_delay,       \* current_delay
    i_slept,       \* argument of the last time.sleep (0: none yet)
    i_last,        \* outcome of the last poll: "none", "ok", "fail"
    i_deploys,     \* calls of deploy() made by the last loop iteration
    i_page,        \* the messages the last poll returned
    \* ---- webhookclient
    args,          \* parse_args(): [update, deploy]
    env,           \* os.environ, the variables the program reads
    pc,            \* position of the main thread
    result,        \* what main came to: "run_poller", or why it returned
    poll_interval, \* run_poller's poll_interval (0 before main has set it)
    iterator,      \* run_poller's iterator
    next_iterator, \* run_poller's next_iterator
    messages,      \* number of messages of the page being processed
    idx,           \* messages of the page already processed
    msg,           \* the message processed last
    table,         \* the OS process table restricted to the match pattern
    repo,          \* the local working copy
    last,          \* what the last handler did: its operations and its exception
    lastPoll,      \* outcome of the last poll_messages: "none", "ok", "fail"
    slept,         \* argument of the last asyncio.sleep (0: none yet)
    fails,         \* consecutive failed polls so far (history, saturating)
    failed,        \* messages of the current page whose processing raised (history)
    \* ---- the repository update_local works on
    disk,          \* the working copy: branch, HEAD commit, origin/* refs, files
    remote,        \* the remote repository: the commit of each of its branches
    hist,          \* the update_local call before the last one (history)
    \* ---- single calls and the call stack
    call,          \* the function called last: its name, its argument, what came of it
    active,        \* the synchronizer and supervisor operations in progress
    at             \* run_poller's position in the cycle it is running

ivars == <<i_pc, i_max, i_unbounded, i_iter, i_delay, i_slept, i_last, i_deploys, i_page>>
wvars == <<args, env, pc, result, poll_interval, iterator, next_iterator, messages,
           idx, msg, table, repo, last, lastPoll, slept, fails, failed>>
svars == <<disk, remote, hist>>
xvars == <<call, active, at>>
vars == <<ivars, wvars, svars, xvars>>

\* ------------------------------------------------------------------ bounds
MaxIterations == 8   \* loop iterations of intra_deploy.poll_messages explored
MaxPage == 2         \* messages per polled page
MaxProcs == 2        \* matching processes in the process table
MaxFaults == 2       \* failing external calls (git, pgrep, kill, Popen) per handler
MaxFails == 4        \* saturation of the consecutive-failure history

Min(a, b) == IF a < b THEN a ELSE b

\* ------------------------------------------------------------------ events
None == "None"
PrimaryRefs == {"refs/heads/master", "refs/heads/main"}
Refs == PrimaryRefs \cup {"refs/heads/feature-x", None}
EventTypes == {"push", "ping", None}
\* payload["repository"]: absent, a mapping, or a JSON value that is no mapping
RepositoryShapes == {"absent", "object", "null"}
Events == [type : EventTypes, ref : Refs, repository : RepositoryShapes]
NoEvent == [type |-> None, ref |-> None, repository |-> "absent"]

\* ------------------------------------------- intra_deploy/main.py
base_delay == 1
max_delay == 60

\* what one message does to process_webhook_payload: "deploy", "ignore", or
\* "raise" (a payload without .get)
IntraPayloads == Refs \cup {"not-a-mapping"}

intra_process_webhook_payload_main_only(p) ==
    IF p = "not-a-mapping" THEN "raise"
    ELSE IF p = "refs/heads/main" THEN "deploy"
    ELSE "ignore"

intra_process_webhook_payload(p) ==
    IF p = "not-a-mapping" THEN "raise"
    ELSE IF p = "refs/heads/master" \/ p = "refs/heads/main" THEN "deploy"
    ELSE "ignore"

intra_backoff_nocap(d) == d * 2

intra_backoff(d) == Min(d * 2, max_delay)

\* the for loop over the page: [delay, deploys] after the messages of page
RECURSIVE intra_for_messages(_, _, _)
intra_for_messages(page, delay, deploys) ==
    IF page = <<>> THEN [delay |-> delay, deploys |-> deploys]
    ELSE LET r == intra_process_webhook_payload(Head(page)) IN
         intra_for_messages(Tail(page),
                            IF r = "raise" THEN delay ELSE base_delay,
                            IF r = "deploy" THEN deploys + 1 ELSE deploys)

IntraPages == UNION {[1..n -> IntraPayloads] : n \in 0..MaxPage}
IntraPollOutcomes == {"ApiException", "Exception", "ok"}

IntraInit ==
    /\ i_pc = "loop"
    /\ i_unbounded \in BOOLEAN
    /\ i_max \in 0..MaxIterations
    /\ i_unbounded => i_max = 0
    /\ i_iter = 0
    /\ i_delay = base_delay
    /\ i_slept = 0
    /\ i_last = "none"
    /\ i_deploys = 0
    /\ i_page = <<>>

\* one iteration of the while loop up to its time.sleep
IntraPoll ==
    /\ i_pc = "loop"
    /\ i_iter < MaxIterations
    /\ i_unbounded \/ i_iter < i_max
    /\ i_iter' = i_iter + 1
    /\ \E o \in IntraPollOutcomes, page \in IntraPages :
         IF o = "ok"
         THEN LET r == intra_for_messages(page, i_delay, 0) IN
              /\ i_delay' = r.delay
              /\ i_deploys' = r.deploys
              /\ i_page' = page
              /\ i_slept' = r.delay
              /\ i_last' = "ok"
         ELSE /\ page = <<>>
              /\ i_delay' = intra_backoff(i_delay)
              /\ i_deploys' = 0
              /\ i_page' = <<>>
              /\ i_slept' = intra_backoff(i_delay)
              /\ i_last' = "fail"
    /\ i_pc' = "sleeping"
    /\ UNCHANGED <<i_max, i_unbounded>>

IntraWake ==
    /\ i_pc = "sleeping"
    /\ i_pc' = "loop"
    /\ UNCHANGED <<i_max, i_unbounded, i_iter, i_delay, i_slept, i_last, i_deploys, i_page>>

IntraReturn ==
    /\ i_pc = "loop"
    /\ ~i_unbounded
    /\ i_iter >= i_max
    /\ i_pc' = "returned"
    /\ UNCHANGED <<i_max, i_unbounded, i_iter, i_delay, i_slept, i_last, i_deploys, i_page>>

\* ------------------------------------------- webhookclient/main.py
\* ---- the environment and its conversions
\* A string is a sequence of characters; int() is modelled over the alphabet
\* of digits, '-' and letters.
DigitChars == {"0", "1", "2", "3", "4", "5", "6", "7", "8", "9"}
DigitVal(c) ==
    CASE c = "0" -> 0 [] c = "1" -> 1 [] c = "2" -> 2 [] c = "3" -> 3 [] c = "4" -> 4
      [] c = "5" -> 5 [] c = "6" -> 6 [] c = "7" -> 7 [] c = "8" -> 8 [] c = "9" -> 9

RECURSIVE DigitsValue(_, _)
DigitsValue(s, acc) ==
    IF s = <<>> THEN acc ELSE DigitsValue(Tail(s), acc * 10 + DigitVal(Head(s)))

\* Python's int(s): [ok, val]; ok = FALSE stands for ValueError
py_int(s) ==
    LET signed == s # <<>> /\ Head(s) = "-"
        body == IF signed THEN Tail(s) ELSE s
    IN  IF body = <<>> \/ \E i \in 1..Len(body) : body[i] \notin DigitChars
        THEN [ok |-> FALSE, val |-> 0]
        ELSE [ok |-> TRUE,
              val |-> IF signed THEN 0 - DigitsValue(body, 0)
                      ELSE DigitsValue(body, 0)]

DefaultInterval == <<"3", "0">>
IntervalStrings ==
    {<<"4", "5">>, <<"0">>, <<"-", "5">>, <<"-", "3", "0">>,
     <<"i", "n", "v", "a", "l", "i", "d">>, <<>>}
IntervalEnv ==
    {[set |-> FALSE, val |-> <<>>]} \cup {[set |-> TRUE, val |-> s] : s \in IntervalStrings}

\* os.getenv("SVIX_POLLING_INTERVAL", "30")
getenv_interval == 
    IF env.SVIX_POLLING_INTERVAL.set THEN env.SVIX_POLLING_INTERVAL.val ELSE DefaultInterval

interval_accept_any(r) == r.ok

\* main's test of the parsed interval: int() succeeded and poll_interval > 0
interval_valid(r) == r.ok /\ ~(r.val <= 0)

\* ---- git and the working copy
\* A commit is named by its tree; None is the unborn HEAD of a repository
\* without commits. A file of the working copy is tracked when HEAD's tree
\* has its path and untracked otherwise.
Branches == {"main", "dev"}
Paths == {"app.py", ".env"}
RemoteCommits == {"c1", "c2", "c3"}
Tree(c) ==
    CASE c = "c1" -> [p \in Paths |-> IF p = "app.py" THEN "a1" ELSE None]
      [] c = "c2" -> [p \in Paths |-> IF p = "app.py" THEN "a2" ELSE None]
      [] c = "c3" -> [p \in Paths |-> IF p = "app.py" THEN "a2" ELSE "tracked-env"]
      [] c = "cL" -> [p \in Paths |-> IF p = "app.py" THEN "aL" ELSE None]
      [] OTHER -> [p \in Paths |-> None]

NoDisk ==
    [branch |-> "main", head |-> None, origin |-> [b \in Branches |-> None],
     files |-> [p \in Paths |-> None]]

\* git clone <url>: the remote's default branch checked out
Cloned(r) == [branch |-> "main", head |-> r["main"], origin |-> r, files |-> Tree(r["main"])]

\* git reset --hard <target>: the target's files are written (an untracked
\* file in the way is overwritten), a file only HEAD tracked is removed,
\* every other file is left alone
reset_hard(d, target) ==
    [d EXCEPT !.head = target,
              !.files = [p \in Paths |->
                            IF Tree(target)[p] # None THEN Tree(target)[p]
                            ELSE IF Tree(d.head)[p] # None THEN None
                            ELSE d.files[p]]]

Tracked(d, p) == Tree(d.head)[p] # None
Untracked(d, p) == d.files[p] # None /\ ~Tracked(d, p)
TrackedContents(d) == [p \in Paths |-> IF Tracked(d, p) THEN d.files[p] ELSE None]

\* ---- the world a handler runs in
\* faults: the indices of the handler's external calls (git, pgrep, kill,
\* Popen) that fail; reap: processes that received SIGTERM have left the
\* process table by the handler's next query of it.
FaultSets(calls) == {f \in SUBSET (1..calls) : Cardinality(f) <= MaxFaults}
\* the most external calls each handler can make
CallsOfCheck == 3                     \* pgrep, pgrep, Popen
CallsOfStop == 1 + MaxProcs           \* pgrep, one kill per process
CallsOfDeploy == CallsOfStop + 2      \* then pgrep, Popen
CallsOfMain == 3 + CallsOfDeploy      \* fetch, rev-parse, reset, then the deploy
CallsOfPayload == 3 + CallsOfDeploy + CallsOfCheck

\* oserr: the handler's failing calls raise OSError and the like, not a
\* non-zero exit status; mkdir_fails: the base directory cannot be created;
\* cls: the step a failure of update_local happened in; envfail: a call failed
\* for a reason outside the repository (network, disk, permissions);
\* qfail: for each query check_project made, whether it failed; launched: the
\* processes Popen started
World(f, reap) ==
    [alive |-> table.alive, term |-> table.term, exists |-> repo.exists,
     faults |-> f, reap |-> reap, n |-> 0, ops |-> <<>>, exc |-> "none", ret |-> FALSE,
     msg |-> "", wc |-> disk, upstream |-> remote, current_branch |-> None,
     oserr |-> FALSE, mkdir_fails |-> FALSE, cls |-> "none", envfail |-> FALSE,
     qfail |-> <<>>, launched |-> 0]

Fault(w) == (w.n + 1) \in w.faults
Called(w, name) == [w EXCEPT !.n = @ + 1, !.ops = Append(@, name)]
Enter(w, name) == [w EXCEPT !.ops = Append(@, name)]
Reaped(w) == IF w.reap THEN [w EXCEPT !.term = 0] ELSE w

\* ---- process supervisor
\* check_project returns b
Returned(w, b) ==
    [w EXCEPT !.ret = b, !.ops = Append(@, IF b THEN "check_project->True"
                                           ELSE "check_project->False")]

\* check_project's query of the process table failed, or not
Queried(w, query_failed) == [w EXCEPT !.qfail = Append(@, query_failed)]

check_project_true_on_failure(w) ==
    IF w.exc # "none" THEN w
    ELSE LET w0 == Enter(w, "check_project") IN
         IF ~env.GREPCOMMAND
         THEN Returned(Queried(w0, TRUE), TRUE)
         ELSE LET w1 == Called(w0, "pgrep") IN
              IF Fault(w0) THEN Returned(Queried(w1, TRUE), TRUE)
              ELSE LET w2 == Reaped(w1) IN
                   Returned(Queried(w2, FALSE), w2.alive + w2.term > 0)

check_project(w) ==
    IF w.exc # "none" THEN w
    ELSE LET w0 == Enter(w, "check_project") IN
         IF ~env.GREPCOMMAND
         THEN Returned(Queried(w0, TRUE), FALSE)  \* pgrep -f None: TypeError, caught
         ELSE LET w1 == Called(w0, "pgrep") IN
              IF Fault(w0) THEN Returned(Queried(w1, TRUE), FALSE)
              ELSE LET w2 == Reaped(w1) IN
                   Returned(Queried(w2, FALSE), w2.alive + w2.term > 0)

start_project_unchecked(w) ==
    IF w.exc # "none" THEN w
    ELSE LET w1 == Enter(w, "start_project") IN
         IF ~env.GITHUB_REPO
         THEN [w1 EXCEPT !.exc = "AttributeError@start_project"]
         ELSE LET w2 == Called(w1, "Popen") IN
              IF Fault(w1) \/ ~env.RUNCOMMAND THEN w2
              ELSE [w2 EXCEPT !.alive = @ + 1, !.launched = @ + 1]

start_project(w) ==
    IF w.exc # "none" THEN w
    ELSE LET w1 == check_project(Enter(w, "start_project")) IN
         IF w1.ret THEN w1
         ELSE IF ~env.GITHUB_REPO
              THEN [w1 EXCEPT !.exc = "AttributeError@start_project"]  \* None.split('/')
              ELSE LET w2 == Called(w1, "Popen") IN
                   IF Fault(w1) \/ ~env.RUNCOMMAND               \* Popen(None): TypeError
                   THEN w2                                       \* launch failure, logged
                   ELSE [w2 EXCEPT !.alive = @ + 1, !.launched = @ + 1]

\* kill -15 for each pid pgrep printed: nterm already signalled, nalive not
RECURSIVE kill_each(_, _, _)
kill_each(w, nterm, nalive) ==
    IF nterm > 0 THEN kill_each(Called(w, "kill"), nterm - 1, nalive)
    ELSE IF nalive > 0
         THEN LET w1 == Called(w, "kill") IN
              IF Fault(w) THEN kill_each(w1, 0, nalive - 1)
              ELSE kill_each([w1 EXCEPT !.alive = @ - 1, !.term = @ + 1], 0, nalive - 1)
         ELSE w

stop_project(w) ==
    IF w.exc # "none" THEN w
    ELSE LET w0 == Enter(w, "stop_project") IN
         IF ~env.GREPCOMMAND THEN w0                      \* TypeError, caught
         ELSE LET w1 == Called(w0, "pgrep") IN
              IF Fault(w0) THEN w1
              ELSE LET w2 == Reaped(w1) IN kill_each(w2, w2.term, w2.alive)

deploy_project_start_first(w) ==
    IF w.exc # "none" THEN w
    ELSE stop_project(start_project(Enter(w, "deploy_project")))

deploy_project(w) ==
    IF w.exc # "none" THEN w
    ELSE start_project(stop_project(Enter(w, "deploy_project")))

check_and_restart_if_needed(w) ==
    IF w.exc # "none" THEN w
    ELSE LET w0 == Enter(w, "check_and_restart_if_needed") IN
         IF ~env.GREPCOMMAND \/ ~env.RUNCOMMAND THEN w0
         ELSE LET w1 == check_project(w0) IN
              IF ~w1.ret THEN start_project(w1) ELSE w1

\* ---- repository synchronizer
\* git itself exits non-zero: rev-parse --abbrev-ref HEAD on an unborn HEAD,
\* reset to an origin/<branch> that does not exist
git_refuses(w, name) ==
    \/ name = "rev-parse" /\ w.wc.head = None
    \/ name = "reset" /\ w.wc.origin[w.current_branch] = None

git_effect(w, name) ==
    CASE name = "clone" -> [w EXCEPT !.wc = Cloned(w.upstream)]
      [] name = "fetch" -> [w EXCEPT !.wc.origin = w.upstream]
      [] name = "rev-parse" -> [w EXCEPT !.current_branch = w.wc.branch]
      [] name = "reset" -> [w EXCEPT !.wc = reset_hard(w.wc, w.wc.origin[w.current_branch])]

\* what update_local raises for a failed git invocation: CalledProcessError
\* becomes "Git operation failed"; any other exception, and the
\* CalledProcessError of check_output (whose stderr is None, so that
\* e.stderr.strip() raises in the inner handler), "Unexpected error during update"
git_error_msg(name, oserr) ==
    IF oserr \/ name = "rev-parse" THEN "Unexpected error during update"
    ELSE "Git operation failed"

\* one git invocation: RuntimeError when it fails
git(w, name) ==
    IF w.exc # "none" THEN w
    ELSE IF Fault(w) \/ git_refuses(w, name)
         THEN [Called(w, name) EXCEPT !.exc = "RuntimeError@update_local",
                                      !.msg = git_error_msg(name, w.oserr /\ Fault(w)),
                                      !.cls = IF w.oserr /\ Fault(w) THEN "other" ELSE name,
                                      !.envfail = Fault(w)]
         ELSE git_effect(Called(w, name), name)

update_local_rev_parse_first(w) ==
    IF w.exc # "none" THEN w
    ELSE LET w0 == Enter(w, "update_local") IN
         IF w0.mkdir_fails
         THEN [w0 EXCEPT !.exc = "OSError@update_local", !.cls = "other", !.envfail = TRUE]
         ELSE IF ~env.GITHUB_REPO
         THEN [w0 EXCEPT !.exc = "AttributeError@update_local", !.cls = "other"]
         ELSE IF ~w0.exists
              THEN LET w1 == git(w0, "clone") IN
                   IF w1.exc = "none" THEN [w1 EXCEPT !.exists = TRUE] ELSE w1
              ELSE git(git(git(w0, "rev-parse"), "fetch"), "reset")

update_local(w) ==
    IF w.exc # "none" THEN w
    ELSE LET w0 == Enter(w, "update_local") IN
         IF w0.mkdir_fails                                \* base_path.mkdir raises
         THEN [w0 EXCEPT !.exc = "OSError@update_local", !.cls = "other", !.envfail = TRUE]
         ELSE IF ~env.GITHUB_REPO
         THEN [w0 EXCEPT !.exc = "AttributeError@update_local",         \* None.split('/')
                         !.cls = "other"]
         ELSE IF ~w0.exists
              THEN LET w1 == git(w0, "clone") IN
                   IF w1.exc = "none" THEN [w1 EXCEPT !.exists = TRUE] ELSE w1
              ELSE git(git(git(w0, "fetch"), "rev-parse"), "reset")

\* ---- event classification and dispatch
process_webhook_payload_deploy_regardless(w, ev) ==
    LET w0 == Enter(w, "process_webhook_payload") IN
    IF ev.repository = "null"
    THEN [w0 EXCEPT !.exc = "AttributeError@process_webhook_payload"]
    ELSE LET w1 ==
                 IF args.update
                 THEN IF ev.type = "push"
                         /\ (ev.ref = "refs/heads/master" \/ ev.ref = "refs/heads/main")
                      THEN LET u == update_local(w0)
                               d == deploy_project([u EXCEPT !.exc = "none"])
                           IN  IF ~args.deploy THEN u
                               ELSE IF u.exc # "none" THEN [d EXCEPT !.exc = u.exc]
                               ELSE d
                      ELSE IF args.deploy THEN check_and_restart_if_needed(w0) ELSE w0
                 ELSE w0
         IN  check_and_restart_if_needed(w1)

process_webhook_payload_any_ref(w, ev) ==
    LET w0 == Enter(w, "process_webhook_payload") IN
    IF ev.repository = "null"
    THEN [w0 EXCEPT !.exc = "AttributeError@process_webhook_payload"]
    ELSE LET w1 ==
                 IF args.update
                 THEN IF ev.type = "push"
                      THEN LET u == update_local(w0) IN
                           IF args.deploy THEN deploy_project(u) ELSE u
                      ELSE IF args.deploy THEN check_and_restart_if_needed(w0) ELSE w0
                 ELSE w0
         IN  check_and_restart_if_needed(w1)

process_webhook_payload(w, ev) ==
    LET w0 == Enter(w, "process_webhook_payload") IN
    IF ev.repository = "null"
    THEN \* payload.get("repository", {}).get("full_name") on a value without .get
         [w0 EXCEPT !.exc = "AttributeError@process_webhook_payload"]
    ELSE LET w1 ==
                 IF args.update
                 THEN IF ev.type = "push"
                         /\ (ev.ref = "refs/heads/master" \/ ev.ref = "refs/heads/main")
                      THEN LET u == update_local(w0) IN
                           IF args.deploy THEN deploy_project(u) ELSE u
                      ELSE IF args.deploy THEN check_and_restart_if_needed(w0) ELSE w0
                 ELSE w0
         IN  check_and_restart_if_needed(w1)

\* ---- main, up to the call of run_poller
Outcome(w, res, interval) == [w |-> w, result |-> res, interval |-> interval]

main(w) ==
    IF ~env.SVIX_ENDPOINT_URL \/ ~env.SVIX_API_KEY THEN Outcome(w, "config:SVIX", 0)
    ELSE IF args.deploy /\ ~env.RUNCOMMAND THEN Outcome(w, "config:RUNCOMMAND", 0)
    ELSE IF args.deploy /\ ~env.GREPCOMMAND THEN Outcome(w, "config:GREPCOMMAND", 0)
    ELSE IF args.update /\ ~env.GITHUB_REPO THEN Outcome(w, "config:GITHUB_REPO", 0)
    ELSE LET w1 == IF args.update
                   THEN LET u == update_local(w) IN
                        IF args.deploy THEN deploy_project(u) ELSE u
                   ELSE w
         IN  IF w1.exc # "none" THEN Outcome(w1, "initial_update_failed", 0)
             ELSE LET r == py_int(getenv_interval) IN
                  IF interval_valid(r) THEN Outcome(w1, "run_poller", r.val)
                  ELSE Outcome(w1, "config:SVIX_POLLING_INTERVAL", 0)

Cursors == {"", "c1"}
LoopPcs == {"poll", "process", "processed", "reconcile", "sleep"}
Idle == [ops |-> <<>>, exc |-> "none", msg |-> ""]

\* the history of update_local calls: nothing called yet
NoOutcome == [exc |-> "none", msg |-> "", cls |-> "none"]
HIdle == [called |-> FALSE, quiet |-> TRUE, envfail |-> FALSE, cls |-> "none",
          prev |-> NoOutcome]

Configs ==
    [SVIX_ENDPOINT_URL : BOOLEAN, SVIX_API_KEY : BOOLEAN, RUNCOMMAND : BOOLEAN,
     GREPCOMMAND : BOOLEAN, GITHUB_REPO : BOOLEAN, SVIX_POLLING_INTERVAL : IntervalEnv]

Init ==
    /\ args \in [update : BOOLEAN, deploy : BOOLEAN]
    /\ env \in Configs
    /\ pc = "main"
    /\ result = "none"
    /\ poll_interval = 0
    /\ iterator = None
    /\ next_iterator = None
    /\ messages = 0
    /\ idx = 0
    /\ msg = NoEvent
    /\ table \in {[alive |-> a, term |-> 0] : a \in 0..1}
    /\ repo \in {[exists |-> e] : e \in BOOLEAN}
    /\ last = Idle
    /\ lastPoll = "none"
    /\ slept = 0
    /\ fails = 0
    /\ failed = 0
    /\ remote = [b \in Branches |-> "c1"]
    /\ disk = IF repo.exists THEN Cloned(remote) ELSE NoDisk
    /\ hist = HIdle

\* the effect of a handler that ran in world w on the external resources
Effect(w) ==
    /\ w.alive + w.term <= MaxProcs
    /\ table' = [alive |-> w.alive, term |-> w.term]
    /\ repo' = [exists |-> w.exists]
    /\ last' = [ops |-> w.ops, exc |-> w.exc, msg |-> w.msg]
    /\ disk' = w.wc

Main ==
    /\ pc = "main"
    /\ \E f \in FaultSets(CallsOfMain), reap \in BOOLEAN :
         LET r == main(World(f, reap)) IN
         /\ Effect(r.w)
         /\ result' = r.result
         /\ poll_interval' = r.interval
         /\ pc' = IF r.result = "run_poller" THEN "poll" ELSE "returned"
    /\ UNCHANGED <<iterator, next_iterator, messages, idx, msg, lastPoll, slept, fails,
                   failed>>

\* ---- poll_messages
\* the response of the endpoint to the one GET: session.get raises, or a
\* status and a body; a body is undecodable, JSON that is no mapping, or a
\* mapping with some of the keys data, iterator, done
BodyKeys == {"data", "iterator", "done"}
NoBody == [kind |-> "undecodable", keys |-> {}, data |-> 0, iterator |-> "", done |-> TRUE]
Mappings ==
    {b \in [kind : {"mapping"}, keys : SUBSET BodyKeys, data : 0..MaxPage,
            iterator : Cursors, done : BOOLEAN] :
        /\ "data" \notin b.keys => b.data = 0
        /\ "iterator" \notin b.keys => b.iterator = ""
        /\ "done" \notin b.keys => b.done}
Bodies == {NoBody, [NoBody EXCEPT !.kind = "not-a-mapping"]} \cup Mappings
Statuses == {200, 500}
Responses ==
    {[raises |-> TRUE, status |-> 0, body |-> NoBody]}
        \cup [raises : {FALSE}, status : Statuses, body : Bodies]

\* data.get(key, default)
dict_get(b, key, default) == IF key \in b.keys THEN b[key] ELSE default

\* the iterator query parameter of the request url (None: the bare endpoint url)
url_iterator(it) == IF it # None /\ it # "" THEN it ELSE None

PollFailure(it) ==
    [messages |-> 0, iterator |-> "", done |-> TRUE, exc |-> "none",
     requests |-> <<url_iterator(it)>>]

poll_messages_keeps_cursor(it, resp) ==
    IF resp.raises \/ resp.status # 200 \/ resp.body.kind # "mapping"
    THEN [PollFailure(it) EXCEPT !.iterator = IF it = None THEN "" ELSE it]
    ELSE [messages |-> dict_get(resp.body, "data", 0),
          iterator |-> dict_get(resp.body, "iterator", ""),
          done |-> dict_get(resp.body, "done", TRUE),
          exc |-> "none", requests |-> <<url_iterator(it)>>]

\* messages is the length of the list returned
poll_messages(it, resp) ==
    IF resp.raises THEN PollFailure(it)                   \* except Exception
    ELSE IF resp.status # 200 THEN PollFailure(it)
    ELSE IF resp.body.kind = "undecodable" THEN PollFailure(it)    \* response.json() raises
    ELSE IF resp.body.kind = "not-a-mapping" THEN PollFailure(it)  \* data.get raises
    ELSE [messages |-> dict_get(resp.body, "data", 0),
          iterator |-> dict_get(resp.body, "iterator", ""),
          done |-> dict_get(resp.body, "done", TRUE),
          exc |-> "none", requests |-> <<url_iterator(it)>>]

\* poll_messages, and run_poller's test of the page it returned
PollOutcomes == {"transport-error", "non-200", "not-a-mapping", "ok"}

\* the response behind each outcome; a page of n messages and cursor it
PollResponse(o, n, it) ==
    CASE o = "transport-error" -> [raises |-> TRUE, status |-> 0, body |-> NoBody]
      [] o = "non-200" -> [raises |-> FALSE, status |-> 500, body |-> NoBody]
      [] o = "not-a-mapping" ->
            [raises |-> FALSE, status |-> 200, body |-> [NoBody EXCEPT !.kind = "not-a-mapping"]]
      [] o = "ok" ->
            [raises |-> FALSE, status |-> 200,
             body |-> [kind |-> "mapping", keys |-> BodyKeys, data |-> n, iterator |-> it,
                       done |-> (n = 0)]]

Poll ==
    /\ pc = "poll"
    /\ \E o \in PollOutcomes, n \in 0..MaxPage, it \in Cursors :
         LET r == poll_messages(iterator, PollResponse(o, n, it)) IN
         /\ o # "ok" => n = 0 /\ it = ""
         /\ messages' = r.messages
         /\ next_iterator' = r.iterator
         /\ lastPoll' = IF o = "ok" THEN "ok" ELSE "fail"
         /\ fails' = IF o = "ok" THEN 0 ELSE Min(fails + 1, MaxFails)
         /\ pc' = IF messages' > 0 THEN "process" ELSE "reconcile"
    /\ idx' = 0
    /\ failed' = 0
    /\ msg' = NoEvent
    /\ last' = [ops |-> <<"poll_messages">>, exc |-> "none", msg |-> ""]
    /\ UNCHANGED <<args, env, result, poll_interval, iterator, table, repo, slept>>

\* ---- verify_webhook
\* The signature scheme of the svix library: the signature header carries a
\* version and a MAC over message id, timestamp and body under the secret.
\* The MAC is modelled as the tuple of what it is computed from, so that two
\* MACs agree exactly when secret, id, timestamp and body all agree.
Secrets == {"k1", "k2"}
MsgIds == {"m1", "m2"}
FreshTimestamps == {"t1", "t2"}
Timestamps == FreshTimestamps \cup {"stale", "malformed"}
Payloads == {"b1", "b2", "not-json"}
hmac(secret, id, ts, body) == <<secret, id, ts, body>>
Macs == {hmac(k, i, t, b) : k \in Secrets, i \in MsgIds,
                            t \in FreshTimestamps \cup {"stale"}, b \in Payloads}
              \cup {<<"garbage">>}
SignatureVersions == {"v1", "v0"}
HeaderKeys == {"svix-id", "svix-timestamp", "svix-signature"}
Headers ==
    {h \in [keys : SUBSET HeaderKeys, id : MsgIds, timestamp : Timestamps,
            version : SignatureVersions, mac : Macs] :
        /\ "svix-id" \notin h.keys => h.id = "m1"
        /\ "svix-timestamp" \notin h.keys => h.timestamp = "t1"
        /\ "svix-signature" \notin h.keys => h.version = "v1" /\ h.mac = <<"garbage">>}

\* Webhook(secret).verify(payload, headers)
Webhook_verify(payload, headers, secret) ==
    IF headers.keys # HeaderKeys
    THEN [exc |-> "WebhookVerificationError", payload |-> None]     \* missing headers
    ELSE IF headers.timestamp \notin FreshTimestamps
    THEN [exc |-> "WebhookVerificationError", payload |-> None]     \* timestamp
    ELSE IF ~(/\ headers.version = "v1"
              /\ headers.mac = hmac(secret, headers.id, headers.timestamp, payload))
    THEN [exc |-> "WebhookVerificationError", payload |-> None]     \* no matching signature
    ELSE IF payload = "not-json"
    THEN [exc |-> "JSONDecodeError", payload |-> None]              \* json.loads
    ELSE [exc |-> "none", payload |-> payload]

verify_webhook_fail_open(payload, headers, secret) ==
    LET r == Webhook_verify(payload, headers, secret) IN
    IF r.exc = "WebhookVerificationError"
    THEN [exc |-> "none", payload |-> payload, logged |-> TRUE]
    ELSE [exc |-> r.exc, payload |-> r.payload, logged |-> FALSE]

\* try: return wh.verify(...) / except WebhookVerificationError: log, raise
verify_webhook(payload, headers, secret) ==
    LET r == Webhook_verify(payload, headers, secret) IN
    IF r.exc = "WebhookVerificationError"
    THEN [exc |-> r.exc, payload |-> None, logged |-> TRUE]
    ELSE [exc |-> r.exc, payload |-> r.payload, logged |-> FALSE]

VerifyCalls ==
    {[fn |-> "verify_webhook", arg |-> [payload |-> b, headers |-> h, secret |-> k],
      out |-> None, returned |-> FALSE] : b \in Payloads, h \in Headers, k \in Secrets}

VerifyCall ==
    /\ call.fn = "verify_webhook"
    /\ ~call.returned
    /\ call' = [call EXCEPT !.out = verify_webhook(call.arg.payload, call.arg.headers,
                                                   call.arg.secret),
                            !.returned = TRUE]
    /\ UNCHANGED <<active, at>>

\* ---- one poll_messages, over every cursor and response
PollCalls ==
    {[fn |-> "poll_messages", arg |-> [iterator |-> it, resp |-> r], out |-> None,
      returned |-> FALSE] : it \in {None} \cup Cursors, r \in Responses}

PollCall ==
    /\ call.fn = "poll_messages"
    /\ ~call.returned
    /\ call' = [call EXCEPT !.out = poll_messages(call.arg.iterator, call.arg.resp),
                            !.returned = TRUE]
    /\ UNCHANGED <<active, at>>

\* the messages a page of the polling loop is drawn from: one of each kind
LoopEvents ==
    {[type |-> "push", ref |-> "refs/heads/main", repository |-> "object"],
     [type |-> "push", ref |-> "refs/heads/feature-x", repository |-> "object"],
     [type |-> "ping", ref |-> None, repository |-> "absent"],
     [type |-> "push", ref |-> "refs/heads/master", repository |-> "null"]}

\* process_messages: the body of its for loop for one message; the exception
\* of process_webhook_payload is caught and logged
ProcessMessage ==
    /\ pc = "process"
    /\ idx < messages
    /\ \E ev \in LoopEvents, f \in FaultSets(CallsOfPayload), reap \in BOOLEAN :
         LET w == process_webhook_payload(World(f, reap), ev) IN
         /\ Effect(w)
         /\ msg' = ev
         /\ failed' = IF w.exc # "none" THEN failed + 1 ELSE failed
    /\ idx' = idx + 1
    /\ pc' = "processed"
    /\ UNCHANGED <<args, env, result, poll_interval, iterator, next_iterator, messages,
                   lastPoll, slept, fails>>

\* process_messages: the for loop takes the next message, or returns
NextMessage ==
    /\ pc = "processed"
    /\ pc' = IF idx = messages THEN "reconcile" ELSE "process"
    /\ msg' = NoEvent
    /\ last' = Idle
    /\ UNCHANGED <<args, env, result, poll_interval, iterator, next_iterator, messages,
                   idx, table, repo, lastPoll, slept, fails, failed>>

run_poller_cursor_stale(it, next_it) == it

\* run_poller: iterator = next_iterator
run_poller_cursor(it, next_it) == next_it

\* run_poller after the page: the health check, the cursor, the sleep
Reconcile ==
    /\ pc = "reconcile"
    /\ \E f \in FaultSets(CallsOfCheck), reap \in BOOLEAN :
         LET w0 == World(f, reap)
             w == IF args.deploy THEN check_and_restart_if_needed(w0) ELSE w0
         IN  /\ Effect(w)
             /\ IF w.exc # "none"
                THEN /\ pc' = "fatal"            \* main: "Fatal error", sys.exit(1)
                     /\ UNCHANGED <<iterator, slept>>
                ELSE /\ pc' = "sleep"
                     /\ iterator' = run_poller_cursor(iterator, next_iterator)
                     /\ slept' = poll_interval
    /\ UNCHANGED <<args, env, result, poll_interval, next_iterator, messages, idx, msg,
                   lastPoll, fails, failed>>

Wake ==
    /\ pc = "sleep"
    /\ pc' = "poll"
    /\ last' = Idle
    /\ UNCHANGED <<args, env, result, poll_interval, iterator, next_iterator, messages,
                   idx, msg, table, repo, lastPoll, slept, fails, failed>>

\* the supervised workload leaves the process table on its own
WorkloadExits ==
    /\ pc \in LoopPcs
    /\ \/ /\ table.alive > 0
          /\ table' = [table EXCEPT !.alive = @ - 1]
       \/ /\ table.term > 0
          /\ table' = [table EXCEPT !.term = @ - 1]
    /\ UNCHANGED <<args, env, pc, result, poll_interval, iterator, next_iterator, messages,
                   idx, msg, repo, last, lastPoll, slept, fails, failed>>

\* the status the process exits with: sys.exit(0) in handle_shutdown,
\* sys.exit(1) after "Fatal error", the interpreter's 0 when main returns
exit_status ==
    CASE pc = "exited" -> 0
      [] pc = "fatal" -> 1
      [] pc = "returned" -> 0
      [] OTHER -> -1                              \* still running

handle_shutdown_no_stop(w) == w

\* SIGINT or SIGTERM once main has installed handle_shutdown
handle_shutdown(w) == IF env.GREPCOMMAND THEN stop_project(w) ELSE w

Signal ==
    /\ pc \in LoopPcs \ {"processed"}
    /\ \E f \in FaultSets(CallsOfStop), reap \in BOOLEAN :
         Effect(handle_shutdown(World(f, reap)))
    /\ pc' = "exited"                            \* sys.exit(0)
    /\ UNCHANGED <<args, env, result, poll_interval, iterator, next_iterator, messages,
                   idx, msg, lastPoll, slept, fails, failed>>

\* ---- one process_webhook_payload, over every event, in a configuration
\* that main accepted
ValidatedConfigs ==
    {c \in Configs : /\ c.SVIX_ENDPOINT_URL /\ c.SVIX_API_KEY
                     /\ ~c.SVIX_POLLING_INTERVAL.set}

PayloadInit ==
    /\ args \in [update : BOOLEAN, deploy : BOOLEAN]
    /\ env \in ValidatedConfigs
    /\ args.deploy => env.RUNCOMMAND /\ env.GREPCOMMAND
    /\ args.update => env.GITHUB_REPO
    /\ pc = "payload"
    /\ result = "run_poller"
    /\ poll_interval = py_int(DefaultInterval).val
    /\ iterator = None
    /\ next_iterator = ""
    /\ messages = 1
    /\ idx = 0
    /\ msg = NoEvent
    /\ table \in {[alive |-> a, term |-> 0] : a \in 0..1}
    /\ repo \in {[exists |-> e] : e \in BOOLEAN}
    /\ args.update => repo.exists               \* main's initial update_local
    /\ last = Idle
    /\ lastPoll = "ok"
    /\ slept = 0
    /\ fails = 0
    /\ failed = 0
    /\ remote = [b \in Branches |-> "c1"]
    /\ disk = IF repo.exists THEN Cloned(remote) ELSE NoDisk
    /\ hist = HIdle

ProcessPayload ==
    /\ pc = "payload"
    /\ \E ev \in Events, f \in FaultSets(CallsOfPayload), reap \in BOOLEAN :
         LET w == process_webhook_payload(World(f, reap), ev) IN
         /\ Effect(w)
         /\ msg' = ev
    /\ pc' = "payload_done"
    /\ UNCHANGED <<args, env, result, poll_interval, iterator, next_iterator, messages,
                   idx, lastPoll, slept, fails, failed>>

PayloadAgain ==
    /\ pc = "payload_done"
    /\ pc' = "payload"
    /\ msg' = NoEvent
    /\ last' = Idle
    /\ UNCHANGED <<args, env, result, poll_interval, iterator, next_iterator, messages,
                   idx, table, repo, lastPoll, slept, fails, failed>>

\* ---- update_local called again and again on a working copy that its
\* operator edits and a remote that receives pushes
CallsOfSync == 3                      \* fetch, rev-parse, reset (or the one clone)
SyncWorld(f, oserr, mk) == [World(f, FALSE) EXCEPT !.oserr = oserr, !.mkdir_fails = mk]

Remotes == {[b \in Branches |-> None]} \cup [Branches -> RemoteCommits]
WorkingCopies(r) ==
    {[Cloned(r) EXCEPT !.branch = b, !.head = r[b], !.files = Tree(r[b])] : b \in Branches}

SyncInit ==
    /\ args = [update |-> TRUE, deploy |-> FALSE]
    /\ env \in {c \in Configs : /\ c.SVIX_ENDPOINT_URL /\ c.SVIX_API_KEY
                                /\ ~c.RUNCOMMAND /\ ~c.GREPCOMMAND
                                /\ ~c.SVIX_POLLING_INTERVAL.set}
    /\ pc = "ready"
    /\ result = "none"
    /\ poll_interval = 0
    /\ iterator = None
    /\ next_iterator = None
    /\ messages = 0
    /\ idx = 0
    /\ msg = NoEvent
    /\ table = [alive |-> 0, term |-> 0]
    /\ repo \in {[exists |-> e] : e \in BOOLEAN}
    /\ last = Idle
    /\ lastPoll = "none"
    /\ slept = 0
    /\ fails = 0
    /\ failed = 0
    /\ remote \in Remotes
    /\ disk \in IF repo.exists THEN WorkingCopies(remote) ELSE {NoDisk}
    /\ hist = HIdle

loopvars ==
    <<args, env, result, poll_interval, iterator, next_iterator, messages, idx, msg,
      lastPoll, slept, fails, failed>>

\* one call of update_local
Sync ==
    /\ pc = "ready"
    /\ \E f \in FaultSets(CallsOfSync), oserr \in BOOLEAN, mk \in BOOLEAN :
         LET w == update_local(SyncWorld(f, oserr, mk)) IN
         /\ Effect(w)
         /\ hist' = [called |-> TRUE, quiet |-> hist.quiet, envfail |-> w.envfail,
                     cls |-> w.cls,
                     prev |-> [exc |-> last.exc, msg |-> last.msg, cls |-> hist.cls]]
    /\ pc' = "synced"
    /\ UNCHANGED <<loopvars, remote>>

SyncReturn ==
    /\ pc = "synced"
    /\ pc' = "ready"
    /\ hist' = [hist EXCEPT !.quiet = TRUE]
    /\ UNCHANGED <<loopvars, table, repo, last, disk, remote>>

\* somebody pushes to a branch of the remote
RemotePush ==
    /\ pc = "ready"
    /\ \E b \in Branches, c \in RemoteCommits :
         /\ remote[b] # None
         /\ remote[b] # c
         /\ remote' = [remote EXCEPT ![b] = c]
    /\ hist' = [hist EXCEPT !.quiet = FALSE]
    /\ UNCHANGED <<loopvars, pc, table, repo, last, disk>>

\* the operator edits a tracked file, adds an untracked one, or commits
LocalEdit ==
    /\ pc = "ready"
    /\ repo.exists
    /\ \/ \E p \in Paths :
            /\ Tracked(disk, p)
            /\ disk' = [disk EXCEPT !.files[p] = "edited"]
       \/ \E p \in Paths :
            /\ disk.files[p] = None
            /\ ~Tracked(disk, p)
            /\ disk' = [disk EXCEPT !.files[p] = "secret"]
       \/ /\ disk.head \in {"c1", "c2"}
          /\ disk' = [disk EXCEPT !.head = "cL", !.files["app.py"] = "aL"]
    /\ hist' = [hist EXCEPT !.quiet = FALSE]
    /\ UNCHANGED <<loopvars, pc, table, repo, last, remote>>

\* ---- the supervisor's operations called one after the other, in any
\* environment, on a workload that may exit at any time
Operations ==
    {"check_project", "start_project", "stop_project", "deploy_project",
     "check_and_restart_if_needed"}

operation(op, w) ==
    CASE op = "check_project" -> check_project(w)
      [] op = "start_project" -> start_project(w)
      [] op = "stop_project" -> stop_project(w)
      [] op = "deploy_project" -> deploy_project(w)
      [] op = "check_and_restart_if_needed" -> check_and_restart_if_needed(w)

\* the external calls of w that failed
FailedCalls(w) == Cardinality(w.faults \cap (1..w.n))

SupervisorInit ==
    /\ args = [update |-> FALSE, deploy |-> TRUE]
    /\ env \in {c \in Configs : /\ c.SVIX_ENDPOINT_URL /\ c.SVIX_API_KEY
                                /\ ~c.SVIX_POLLING_INTERVAL.set}
    /\ pc = "ready"
    /\ result = "none"
    /\ poll_interval = 0
    /\ iterator = None
    /\ next_iterator = None
    /\ messages = 0
    /\ idx = 0
    /\ msg = NoEvent
    /\ table \in {[alive |-> a, term |-> 0] : a \in 0..1}
    /\ repo = [exists |-> TRUE]
    /\ last = Idle
    /\ lastPoll = "none"
    /\ slept = 0
    /\ fails = 0
    /\ failed = 0
    /\ remote = [b \in Branches |-> "c1"]
    /\ disk = Cloned(remote)
    /\ hist = HIdle

Operate ==
    /\ pc = "ready"
    /\ \E op \in Operations, f \in FaultSets(CallsOfDeploy), reap \in BOOLEAN :
         LET w == operation(op, World(f, reap)) IN
         /\ Effect(w)
         /\ call' = [fn |-> op, arg |-> table,
                     out |-> [ret |-> w.ret, qfail |-> w.qfail, launched |-> w.launched,
                              failed |-> FailedCalls(w)],
                     returned |-> TRUE]
    /\ pc' = "done"
    /\ UNCHANGED <<loopvars, remote, hist, active, at>>

OperateReturn ==
    /\ pc = "done"
    /\ pc' = "ready"
    /\ last' = Idle
    /\ UNCHANGED <<loopvars, table, repo, svars, xvars>>

InstanceExits ==
    /\ pc = "ready"
    /\ \/ /\ table.alive > 0
          /\ table' = [table EXCEPT !.alive = @ - 1]
       \/ /\ table.term > 0
          /\ table' = [table EXCEPT !.term = @ - 1]
    /\ UNCHANGED <<loopvars, pc, repo, last, svars, xvars>>

\* ---- the main thread inside a handler, and the delivery of a signal
\* The handlers above are followed one external call at a time: at is the
\* number of entries of the handler's trace the main thread has gone through,
\* active the operations in progress at that point. The handler's effect on
\* the process table and the working copy is applied when it returns; what a
\* handler cut short by the signal had done by then is not followed.
Frame(op, by) == [op |-> op, by |-> by]

\* the operations in progress once the main thread has gone through entry k
\* of trace, st being the ones in progress before it
frame_step(st, trace, k) ==
    LET t == trace[k] IN
    CASE t \in {"update_local", "stop_project", "start_project"} -> <<Frame(t, "loop")>>
      [] t = "check_project" ->
            IF k > 1 /\ trace[k - 1] = "start_project"
            THEN Append(st, Frame(t, "call"))             \* called by start_project
            ELSE <<Frame(t, "loop")>>
      [] t \in {"check_project->True", "check_project->False"} -> SubSeq(st, 1, Len(st) - 1)
      [] t \in {"process_webhook_payload", "deploy_project", "check_and_restart_if_needed"}
            -> <<>>
      [] OTHER -> st                                      \* git, pgrep, kill, Popen

Handlers == {"process_webhook_payload", "check_and_restart_if_needed"}

\* handler h, called with arg, will run as w
Begin(h, arg, w) ==
    /\ w.alive + w.term <= MaxProcs
    /\ call' = [fn |-> h, arg |-> arg,
                out |-> [ops |-> w.ops, exc |-> w.exc, msg |-> w.msg, alive |-> w.alive,
                         term |-> w.term, exists |-> w.exists, wc |-> w.wc],
                returned |-> FALSE]

\* process_messages calls process_webhook_payload, or run_poller its health check
Dispatch ==
    /\ pc = "payload"
    /\ \E f \in FaultSets(CallsOfPayload), reap \in BOOLEAN :
         \/ \E ev \in LoopEvents :
               Begin("process_webhook_payload", ev,
                     process_webhook_payload(World(f, reap), ev))
         \/ Begin("check_and_restart_if_needed", NoEvent,
                  IF args.deploy THEN check_and_restart_if_needed(World(f, reap))
                  ELSE World(f, reap))
    /\ pc' = "handling"
    /\ at' = 0
    /\ active' = <<>>
    /\ UNCHANGED <<loopvars, table, repo, last, svars>>

\* the main thread goes on to its next external call or function entry
Advance ==
    /\ pc = "handling"
    /\ at < Len(call.out.ops)
    /\ at' = at + 1
    /\ active' = frame_step(active, call.out.ops, at + 1)
    /\ UNCHANGED <<loopvars, pc, table, repo, last, svars, call>>

\* the handler returns
Finish ==
    /\ pc = "handling"
    /\ at = Len(call.out.ops)
    /\ Effect(call.out)
    /\ call' = [call EXCEPT !.returned = TRUE]
    /\ pc' = "payload"
    /\ at' = 0
    /\ active' = <<>>
    /\ UNCHANGED <<loopvars, remote, hist>>

\* SIGINT or SIGTERM is delivered: handle_shutdown runs in the main thread, on
\* top of whatever it was doing
Deliver ==
    /\ pc \in {"payload", "handling"}
    /\ active' = IF env.GREPCOMMAND THEN Append(active, Frame("stop_project", "signal"))
                 ELSE active
    /\ pc' = "shutdown"
    /\ UNCHANGED <<loopvars, table, repo, last, svars, call, at>>

\* handle_shutdown's stop_project returns, sys.exit(0)
Exit ==
    /\ pc = "shutdown"
    /\ \E f \in FaultSets(CallsOfStop), reap \in BOOLEAN :
         Effect(handle_shutdown(World(f, reap)))
    /\ pc' = "exited"
    /\ active' = <<>>
    /\ UNCHANGED <<loopvars, remote, hist, call, at>>

\* no single call observed, no operation in progress
NoCall == [fn |-> "none", arg |-> None, out |-> None, returned |-> FALSE]
XIdle ==
    /\ call = NoCall
    /\ active = <<>>
    /\ at = 0

IIdle ==
    /\ i_pc = "off"
    /\ i_max = 0
    /\ i_unbounded = FALSE
    /\ i_iter = 0
    /\ i_delay = base_delay
    /\ i_slept = 0
    /\ i_last = "none"
    /\ i_deploys = 0
    /\ i_page = <<>>

SpecInit == Init /\ IIdle /\ XIdle
Next ==
    \/ Main /\ UNCHANGED <<args, env>> /\ UNCHANGED <<ivars, remote, hist, xvars>>
    \/ Poll /\ UNCHANGED <<ivars, svars, xvars>>
    \/ ProcessMessage /\ UNCHANGED <<ivars, remote, hist, xvars>>
    \/ NextMessage /\ UNCHANGED <<ivars, svars, xvars>>
    \/ Reconcile /\ UNCHANGED <<ivars, remote, hist, xvars>>
    \/ Wake /\ UNCHANGED <<ivars, svars, xvars>>
    \/ WorkloadExits /\ UNCHANGED <<ivars, svars, xvars>>
    \/ Signal /\ UNCHANGED <<ivars, remote, hist, xvars>>
Spec == SpecInit /\ [][Next]_vars

SpecPayloadInit == PayloadInit /\ IIdle /\ XIdle
SpecPayloadNext ==
    \/ ProcessPayload /\ UNCHANGED <<ivars, remote, hist, xvars>>
    \/ PayloadAgain /\ UNCHANGED <<ivars, svars, xvars>>
SpecPayload == SpecPayloadInit /\ [][SpecPayloadNext]_vars

SpecSyncInit == SyncInit /\ IIdle /\ XIdle
SpecSyncNext ==
    \/ Sync /\ UNCHANGED <<ivars, xvars>>
    \/ SyncReturn /\ UNCHANGED <<ivars, xvars>>
    \/ RemotePush /\ UNCHANGED <<ivars, xvars>>
    \/ LocalEdit /\ UNCHANGED <<ivars, xvars>>
SpecSync == SpecSyncInit /\ [][SpecSyncNext]_vars

WIdle ==
    /\ args = [update |-> FALSE, deploy |-> FALSE]
    /\ env = [SVIX_ENDPOINT_URL |-> FALSE, SVIX_API_KEY |-> FALSE, RUNCOMMAND |-> FALSE,
              GREPCOMMAND |-> FALSE, GITHUB_REPO |-> FALSE,
              SVIX_POLLING_INTERVAL |-> [set |-> FALSE, val |-> <<>>]]
    /\ pc = "off"
    /\ result = "none"
    /\ poll_interval = 0
    /\ iterator = None
    /\ next_iterator = None
    /\ messages = 0
    /\ idx = 0
    /\ msg = NoEvent
    /\ table = [alive |-> 0, term |-> 0]
    /\ repo = [exists |-> FALSE]
    /\ last = Idle
    /\ lastPoll = "none"
    /\ slept = 0
    /\ fails = 0
    /\ failed = 0
    /\ remote = [b \in Branches |-> None]
    /\ disk = NoDisk
    /\ hist = HIdle

SpecIntraInit == IntraInit /\ WIdle /\ XIdle
SpecIntraNext ==
    \/ IntraPoll /\ UNCHANGED <<wvars, svars, xvars>>
    \/ IntraWake /\ UNCHANGED <<wvars, svars, xvars>>
    \/ IntraReturn /\ UNCHANGED <<wvars, svars, xvars>>
SpecIntra == SpecIntraInit /\ [][SpecIntraNext]_vars

SpecSupervisorInit == SupervisorInit /\ IIdle /\ XIdle
SpecSupervisorNext ==
    \/ Operate /\ UNCHANGED ivars
    \/ OperateReturn /\ UNCHANGED ivars
    \/ InstanceExits /\ UNCHANGED ivars
SpecSupervisor == SpecSupervisorInit /\ [][SpecSupervisorNext]_vars

SpecSignalInit == PayloadInit /\ IIdle /\ XIdle
SpecSignalNext ==
    \/ Dispatch /\ UNCHANGED ivars
    \/ Advance /\ UNCHANGED ivars
    \/ Finish /\ UNCHANGED ivars
    \/ Deliver /\ UNCHANGED ivars
    \/ Exit /\ UNCHANGED ivars
SpecSignal == SpecSignalInit /\ [][SpecSignalNext]_vars

SpecVerifyInit == WIdle /\ IIdle /\ call \in VerifyCalls /\ active = <<>> /\ at = 0
SpecVerifyNext == VerifyCall /\ UNCHANGED <<ivars, wvars, svars>>
SpecVerify == SpecVerifyInit /\ [][SpecVerifyNext]_vars

SpecPollInit == WIdle /\ IIdle /\ call \in PollCalls /\ active = <<>> /\ at = 0
SpecPollNext == PollCall /\ UNCHANGED <<ivars, wvars, svars>>
SpecPoll == SpecPollInit /\ [][SpecPollNext]_vars

\* ================================================================ claims
Has(ops, name) == \E i \in 1..Len(ops) : ops[i] = name

\* ---------------------------------------------------------------- C1
Qualifies(ev) == ev.type = "push" /\ ev.ref \in {"refs/heads/master", "refs/heads/main"}
ClassificationRaised == last.exc # "none" /\ last.ops = <<"process_webhook_payload">>

\* C1: with update mode enabled, process_webhook_payload calls update_local
\* for an event if and only if its event type is push and its ref is
\* refs/heads/master or refs/heads/main, and classifying an event never raises.
C1_SyncIffPrimaryPush ==
    (pc = "payload_done" /\ args.update) =>
        /\ Has(last.ops, "update_local") <=> Qualifies(msg)
        /\ ~ClassificationRaised

\* ---------------------------------------------------------------- C2
IntraFailedPoll == i_pc = "loop" /\ i_pc' = "sleeping" /\ i_last' = "fail"

\* C2: in intra_deploy's poll_messages a failed poll is followed by a sleep of
\* twice the current delay, at most 60 s: after a failed poll the sleeps of
\* consecutive failures strictly increase until they are 60 s, and from the
\* base delay the first failed poll is followed by a sleep of 2 s.
C2_FailedPollDoublesDelay ==
    [][IntraFailedPoll =>
          /\ i_slept' <= 60
          /\ i_slept' = IF 2 * i_delay < 60 THEN 2 * i_delay ELSE 60
          /\ i_delay = 1 => i_slept' = 2
          /\ i_last = "fail" =>
                /\ i_slept' = IF 2 * i_slept < 60 THEN 2 * i_slept ELSE 60
                /\ i_slept < 60 => i_slept' > i_slept
                /\ i_slept = 60 => i_slept' = 60]_vars

\* six consecutive failed polls have brought the sleep to the cap
C2_Witness == i_pc = "sleeping" /\ i_last = "fail" /\ i_slept = 60 /\ i_iter = 6

\* ---------------------------------------------------------------- C3
\* C3: in intra_deploy's poll_messages the sleep after a poll that succeeded
\* is the base delay of 1 s, whatever preceded it and whatever the page held.
C3_SuccessResetsDelay ==
    (i_pc = "sleeping" /\ i_last = "ok") => i_slept = 1

\* ---------------------------------------------------------------- C4
RECURSIVE Pow2(_)
Pow2(n) == IF n = 0 THEN 1 ELSE 2 * Pow2(n - 1)
Capped(n) == IF n < 60 THEN n ELSE 60

\* C4: in run_poller the sleep after the k-th consecutive failed poll is the
\* exponential backoff of k (1 s base doubled per consecutive failure, at
\* most 60 s; the first failure waits the base or its double).
C4_BackoffAfterFailedPoll ==
    (pc = "sleep" /\ lastPoll = "fail" /\ fails < MaxFails) =>
        slept \in {Capped(Pow2(fails - 1)), Capped(Pow2(fails))}

\* ---------------------------------------------------------------- C5
\* C5: run_poller never ends on its own (only a signal ends it), and the
\* sleep after a successful poll is the configured poll interval.
C5_PollerNeverEndsItself ==
    /\ pc # "fatal"
    /\ (pc = "sleep" /\ lastPoll = "ok") => slept = poll_interval

\* ---------------------------------------------------------------- C6
\* C6: a message whose processing raised is skipped: process_messages goes
\* on to the later messages of the page and returns to the polling loop,
\* and the loop goes on to its next cycle.
C6_FailedMessageSkipped ==
    /\ pc = "reconcile" => idx = messages
    /\ failed > 0 => pc # "fatal"

\* ---------------------------------------------------------------- C7
\* C7: start_project never raises to its caller in a configuration that main
\* accepted, and the polling loop survives a failed launch.
C7_StartNeverRaises ==
    /\ last.exc # "AttributeError@start_project"
    /\ pc # "fatal"

\* ---------------------------------------------------------------- C8
\* the integer the interval setting stands for; 0: not a positive integer
ExpectedInterval ==
    IF ~env.SVIX_POLLING_INTERVAL.set THEN 30
    ELSE IF env.SVIX_POLLING_INTERVAL.val = <<"4", "5">> THEN 45
    ELSE 0
OtherReasons ==
    {"config:SVIX", "config:RUNCOMMAND", "config:GREPCOMMAND", "config:GITHUB_REPO",
     "initial_update_failed"}

\* C8: main calls run_poller only if the poll interval is a positive integer
\* and then with that value (30 when unset); when it is not, main returns
\* with a configuration error on the interval and run_poller is never
\* called; nothing but an earlier return keeps a positive interval from
\* starting the loop.
C8_LoopStartsIffIntervalPositive ==
    pc # "main" =>
        /\ result = "run_poller" => ExpectedInterval > 0 /\ poll_interval = ExpectedInterval
        /\ ExpectedInterval = 0 =>
              /\ pc = "returned"
              /\ result \in OtherReasons \cup {"config:SVIX_POLLING_INTERVAL"}
        /\ ExpectedInterval > 0 => result \in OtherReasons \cup {"run_poller"}
        /\ pc \in LoopPcs \cup {"fatal", "exited"} => result = "run_poller"

\* main has returned on SVIX_POLLING_INTERVAL=-5
C8_Witness ==
    /\ pc = "returned"
    /\ result = "config:SVIX_POLLING_INTERVAL"
    /\ env.SVIX_POLLING_INTERVAL = [set |-> TRUE, val |-> <<"-", "5">>]

\* ---------------------------------------------------------------- C9
ConfigErrors ==
    {"config:SVIX", "config:RUNCOMMAND", "config:GREPCOMMAND", "config:GITHUB_REPO",
     "config:SVIX_POLLING_INTERVAL"}

\* C9: when main returns on a configuration error it has performed no
\* synchronization and no start or stop of the supervised process.
C9_NoPartialStartup ==
    (pc = "returned" /\ result \in ConfigErrors) => last.ops = <<>>

\* ---------------------------------------------------------------- C10
\* the position in ops of the result of the check_project entered at i
CheckResultAt(ops, i) == IF ops[i + 1] = "pgrep" THEN i + 2 ELSE i + 1
PopenAt(ops, j) == j <= Len(ops) /\ ops[j] = "Popen"

\* C10: a start_project or check_and_restart_if_needed whose check_project
\* reports a running process launches nothing, and a start_project whose
\* check_project reports none makes exactly one Popen.
C10_OneLaunchPerStart ==
    \A i \in 1..Len(last.ops) :
        /\ last.ops[i] = "start_project" =>
              LET j == CheckResultAt(last.ops, i + 1) IN
              IF last.ops[j] = "check_project->True"
              THEN ~PopenAt(last.ops, j + 1)
              ELSE PopenAt(last.ops, j + 1) /\ ~PopenAt(last.ops, j + 2)
        /\ last.ops[i] = "check_and_restart_if_needed"
              /\ i < Len(last.ops)
              /\ last.ops[i + 1] = "check_project" =>
              LET j == CheckResultAt(last.ops, i + 1) IN
              last.ops[j] = "check_project->True" =>
                  (j = Len(last.ops) \/ last.ops[j + 1] \notin {"start_project", "Popen"})

\* ---------------------------------------------------------------- C11
\* C11: whenever a run command and a match pattern are both configured, every
\* cycle of run_poller that reaches its sleep has just performed the reconcile
\* check (check_and_restart_if_needed with its check_project), with or without
\* events, and a check that found no process has called start_project.
C11_ReconcileEveryCycle ==
    (pc = "sleep" /\ env.RUNCOMMAND /\ env.GREPCOMMAND) =>
        /\ last.ops # <<>>
        /\ last.ops[1] = "check_and_restart_if_needed"
        /\ Has(last.ops, "check_project")
        /\ Has(last.ops, "check_project->False") => Has(last.ops, "start_project")

\* ---------------------------------------------------------------- C12
\* C12: every deploy_project enters stop_project first and start_project
\* second, with only stop_project's own pgrep and kill calls in between,
\* whatever those calls did.
C12_DeployStopsThenStarts ==
    \A i \in 1..Len(last.ops) :
        last.ops[i] = "deploy_project" =>
            /\ i < Len(last.ops)
            /\ last.ops[i + 1] = "stop_project"
            /\ \E j \in (i + 2)..Len(last.ops) :
                  /\ last.ops[j] = "start_project"
                  /\ \A k \in (i + 2)..(j - 1) : last.ops[k] \in {"pgrep", "kill"}

\* a deploy whose kill was not delivered: the process is still running, and
\* start_project was entered and found it
C12_Witness ==
    /\ Has(last.ops, "deploy_project")
    /\ Has(last.ops, "kill")
    /\ Has(last.ops, "start_project")
    /\ ~Has(last.ops, "Popen")
    /\ table = [alive |-> 1, term |-> 0]

\* ---------------------------------------------------------------- C13
SupervisorOps ==
    {"deploy_project", "stop_project", "start_project", "check_and_restart_if_needed",
     "check_project", "pgrep", "kill", "Popen"}

\* C13: for a qualifying push with update and deploy enabled, deploy_project
\* is entered only right after update_local's git commands all succeeded, and
\* when update_local raised the event makes no supervisor call and leaves the
\* process table as it was.
C13_DeployOnlyAfterSync ==
    [][(pc = "payload" /\ pc' = "payload_done" /\ args.update /\ args.deploy
          /\ Qualifies(msg')) =>
          /\ Has(last'.ops, "deploy_project") =>
                /\ last'.exc # "RuntimeError@update_local"
                /\ last'.ops[2] = "update_local"
                /\ \/ SubSeq(last'.ops, 3, 4) = <<"clone", "deploy_project">>
                   \/ SubSeq(last'.ops, 3, 6) =
                          <<"fetch", "rev-parse", "reset", "deploy_project">>
                /\ repo'.exists
          /\ last'.exc = "RuntimeError@update_local" =>
                /\ \A n \in SupervisorOps : ~Has(last'.ops, n)
                /\ table' = table]_vars

\* a qualifying push whose synchronization failed while the process ran
C13_Witness ==
    /\ pc = "payload_done"
    /\ args.update /\ args.deploy
    /\ Qualifies(msg)
    /\ last.exc = "RuntimeError@update_local"
    /\ table.alive = 1

\* ---------------------------------------------------------------- C14
\* C14: a signal step ends the loop for good (no step follows it), exits with
\* status 0 whatever stop_project met, and with supervision configured the
\* handler's first call is stop_project.
C14_SignalStopsThenExits ==
    [][/\ (pc # "exited" /\ pc' = "exited") =>
             /\ exit_status' = 0
             /\ (args.deploy \/ (env.RUNCOMMAND /\ env.GREPCOMMAND)) =>
                    (last'.ops # <<>> /\ last'.ops[1] = "stop_project")
       /\ pc = "exited" => pc' = "exited" /\ last' = last /\ table' = table]_vars

\* the handler's kill was not delivered, and the process exited all the same
C14_Witness ==
    /\ pc = "exited"
    /\ Has(last.ops, "kill")
    /\ table.alive = 1
    /\ table.term = 0

\* ---------------------------------------------------------------- C15
OtherRefStep == pc = "payload" /\ pc' = "payload_done" /\ msg'.ref \notin PrimaryRefs

\* C15: processing an event whose ref is no primary branch invokes neither
\* update_local nor stop_project, and a supervised process that is running
\* stays running and is not launched again.
C15_OtherRefNoSyncNoRestart ==
    [][OtherRefStep =>
          /\ ~Has(last'.ops, "update_local")
          /\ ~Has(last'.ops, "stop_project")
          /\ table.alive > 0 =>
                /\ table'.alive >= table.alive
                /\ ~Has(last'.ops, "kill")
                /\ ~Has(last'.ops, "Popen")]_vars

\* C15 as amended: as above, but a running process may be launched again
\* when check_project's query of the process table failed and so reported
\* that nothing runs.
C15_OtherRefNoSyncNoRestartUnlessQueryFails ==
    [][OtherRefStep =>
          /\ ~Has(last'.ops, "update_local")
          /\ ~Has(last'.ops, "stop_project")
          /\ table.alive > 0 =>
                /\ table'.alive >= table.alive
                /\ ~Has(last'.ops, "kill")
                /\ Has(last'.ops, "Popen") => Has(last'.ops, "check_project->False")
                /\ ~Has(last'.ops, "check_project->False") => table'.alive = table.alive]_vars

\* a push to feature-x with update and deploy enabled found the process running
C15_Witness ==
    /\ pc = "payload_done"
    /\ msg = [type |-> "push", ref |-> "refs/heads/feature-x", repository |-> "object"]
    /\ args.update /\ args.deploy
    /\ Has(last.ops, "check_project->True")
    /\ ~Has(last.ops, "check_project->False")
    /\ table.alive = 1

\* ---------------------------------------------------------------- C16
SyncStep == pc = "ready" /\ pc' = "synced"
FetchReset == <<"update_local", "fetch", "rev-parse", "reset">>
IsPrefix(a, b) == Len(a) <= Len(b) /\ a = SubSeq(b, 1, Len(a))

AtRemoteTip(d) ==
    /\ d.head = remote[d.branch]
    /\ \A p \in Paths : Tracked(d, p) => d.files[p] = Tree(d.head)[p]

\* C17: when update_local is called twice in a row, with no push to the
\* remote and no edit of the working copy in between and with no external
\* failure (network, disk) in either call, neither call raises, and the
\* tracked contents after the second call equal those after the first, both
\* being the remote tip of the checked-out branch.
C17_SyncIdempotent ==
    [][(SyncStep /\ env.GITHUB_REPO /\ hist.called /\ hist.quiet
          /\ ~hist.envfail /\ ~hist'.envfail) =>
          /\ last.exc = "none"
          /\ last'.exc = "none"
          /\ TrackedContents(disk') = TrackedContents(disk)
          /\ AtRemoteTip(disk')]_vars

\* ---------------------------------------------------------------- C18
\* C18: update_local on an existing working copy leaves every untracked file
\* in place with its content, whatever the remote tip, while a complete run
\* discards local commits and edits of tracked files.
C18_UntrackedPreserved ==
    [][(SyncStep /\ repo.exists) =>
          /\ \A p \in Paths : Untracked(disk, p) => disk'.files[p] = disk.files[p]
          /\ (env.GITHUB_REPO /\ last'.exc = "none") => AtRemoteTip(disk')]_vars

\* ---------------------------------------------------------------- C19
\* the four outcomes the claim tells apart
ErrorClass(c) == IF c \in {"clone", "fetch", "reset"} THEN c ELSE "other"

\* C19: two failures of update_local in different steps (clone, fetch, reset,
\* anything else) are reported to the caller as different errors, by
\* exception type or by the context the message starts with.
C19_ErrorsDistinguishable ==
    (pc = "synced" /\ hist.prev.exc # "none" /\ last.exc # "none"
        /\ ErrorClass(hist.prev.cls) # ErrorClass(hist.cls)) =>
        <<hist.prev.exc, hist.prev.msg>> # <<last.exc, last.msg>>

\* ---------------------------------------------------------------- C20
\* C20: update_local returns normally or raises RuntimeError and nothing
\* else: an unset GITHUB_REPO gives the RuntimeError that GITHUB_REPO must be
\* set, and a git invocation that raised something other than git's exit
\* status gives a RuntimeError starting with "Unexpected error during".
C20_OnlyRuntimeError ==
    pc = "synced" =>
        /\ last.exc \in {"none", "RuntimeError@update_local"}
        /\ ~env.GITHUB_REPO =>
              /\ last.exc = "RuntimeError@update_local"
              /\ last.msg = "GITHUB_REPO environment variable must be set"
        /\ (hist.cls = "other" /\ Len(last.ops) > 1) =>
              /\ last.exc = "RuntimeError@update_local"
              /\ last.msg = "Unexpected error during update"

\* ---------------------------------------------------------------- C21
PollReturned == call.fn = "poll_messages" /\ call.returned
PollFailed ==
    \/ call.arg.resp.raises
    \/ call.arg.resp.status # 200
    \/ call.arg.resp.body.kind # "mapping"

\* C21: poll_messages makes a single request per call and never raises: a
\* non-200 status, a transport exception and a body that cannot be decoded
\* each yield the empty list, the empty cursor and done = true; on a 200 it
\* returns the data, iterator and done fields of the body.
C21_PollNeverRaises ==
    PollReturned =>
        /\ call.out.exc = "none"
        /\ Len(call.out.requests) = 1
        /\ PollFailed =>
              /\ call.out.messages = 0
              /\ call.out.iterator = ""
              /\ call.out.done
        /\ ~PollFailed =>
              \A k \in call.arg.resp.body.keys : call.out[IF k = "data" THEN "messages" ELSE k]
                                                  = call.arg.resp.body[k]

C21_Witness ==
    /\ PollReturned
    /\ call.arg.resp.status = 500
    /\ call.arg.iterator = "c1"
    /\ call.out.iterator = ""
    /\ call.out.done

\* ---------------------------------------------------------------- C22
PollStep == pc = "poll" /\ pc' \in {"process", "reconcile"}
EventStep == pc = "process" /\ pc' = "processed"

C28_FailedPollKeepsCursor ==
    [][(pc = "reconcile" /\ pc' = "sleep" /\ lastPoll = "fail")
          => url_iterator(iterator') = url_iterator(iterator)]_vars

\* ---------------------------------------------------------------- C30
SupervisionEnabled == args.deploy /\ env.RUNCOMMAND /\ env.GREPCOMMAND

\* C30: when supervision is not enabled (deploy mode not selected, or the run
\* command or the match pattern not configured) the processing of an event,
\* the per-cycle step of run_poller and the shutdown handler start no process
\* and signal none.
C30_NoSupervisionNoProcessEffect ==
    [][(pc \in LoopPcs /\ pc' # pc /\ ~SupervisionEnabled)
          => table'.alive = table.alive]_vars

\* ---------------------------------------------------------------- C25
PrimaryMessages == {k \in 1..Len(i_page) : i_page[k] \in {"refs/heads/master", "refs/heads/main"}}

\* C25: intra_deploy's process_webhook_payload calls deploy exactly once for
\* a message whose ref is refs/heads/master or refs/heads/main, and not at
\* all for a message with another ref or with none: the deploys of a page
\* are as many as its messages with a primary ref.
C25_DeployOncePerPrimaryRef ==
    (i_pc = "sleeping" /\ i_last = "ok") => i_deploys = Cardinality(PrimaryMessages)

C25_Witness ==
    /\ i_pc = "sleeping"
    /\ i_last = "ok"
    /\ i_page = <<"refs/heads/master", "refs/heads/feature-x">>
    /\ i_deploys = 1

\* ---------------------------------------------------------------- C23
Operated(op) == pc = "done" /\ call.fn = op
FirstQueryFailed == call.out.qfail # <<>> /\ call.out.qfail[1]

\* C23: check_project never raises; it returns true only when its query of
\* the process table succeeded and found a match, and false both when nothing
\* matches and when the query failed (an unset match pattern included), so
\* that a reconcile whose query failed calls start_project.
C23_CheckFalseOnFailure ==
    /\ Operated("check_project") =>
          /\ last.exc = "none"
          /\ Len(call.out.qfail) = 1
          /\ call.out.ret = (~call.out.qfail[1] /\ table.alive + table.term > 0)
    /\ (Operated("check_and_restart_if_needed") /\ FirstQueryFailed)
          => Has(last.ops, "start_project")

C23_Witness ==
    /\ Operated("check_and_restart_if_needed")
    /\ FirstQueryFailed
    /\ call.arg.alive = 1
    /\ Has(last.ops, "start_project")

\* ---------------------------------------------------------------- C26
Configured == env.RUNCOMMAND /\ env.GREPCOMMAND /\ env.GITHUB_REPO

\* C26: deploy_project replaces a running instance: called while an old
\* instance is running (in a full configuration and with no external call
\* failing), it has launched an instance by the time it returns, and that
\* instance is running.
C26_DeployReplacesRunning ==
    [][(/\ pc = "ready" /\ pc' = "done"
        /\ call'.fn = "deploy_project"
        /\ table.alive > 0
        /\ Configured
        /\ call'.out.failed = 0)
          => call'.out.launched = 1 /\ table'.alive > 0]_vars

\* ---------------------------------------------------------------- C29
\* C29 as stated: in every reachable state at most one instance is alive.
C29_AtMostOneInstance == table.alive <= 1

LastQueryFailed == call.out.qfail # <<>> /\ call.out.qfail[Len(call.out.qfail)]

\* C29, amended: start_project launches an instance while another process
\* matching the pattern is in the process table only when its query of the
\* process table had failed.
C29_SecondInstanceOnlyAfterFailedQuery ==
    (pc = "done" /\ call.out.launched > 0 /\ table.alive + table.term > 1)
        => LastQueryFailed

C29_Witness ==
    /\ pc = "done"
    /\ call.fn = "check_and_restart_if_needed"
    /\ call.out.launched = 1
    /\ table.alive = 2
    /\ call.out.qfail = <<TRUE, TRUE>>

\* ---------------------------------------------------------------- C27
\* the operations in progress that were not called by the one beneath them
Independent == {i \in 1..Len(active) : active[i].by # "call"}

\* C27: no synchronizer or supervisor operation is entered while another is
\* in progress, the delivery of a shutdown signal at an arbitrary instant
\* included: at most one of update_local, check_project, start_project and
\* stop_project is active at a time (an operation and the one it calls
\* itself counting as one).
C27_OneOperationAtATime == Cardinality(Independent) <= 1

\* ---------------------------------------------------------------- C24
Verified == call.fn = "verify_webhook" /\ call.returned
SignatureVerifies ==
    /\ call.arg.headers.keys = HeaderKeys
    /\ call.arg.headers.timestamp \in FreshTimestamps
    /\ call.arg.headers.version = "v1"
    /\ call.arg.headers.mac = hmac(call.arg.secret, call.arg.headers.id,
                                   call.arg.headers.timestamp, call.arg.payload)

\* C24: verify_webhook fails closed: it returns the decoded payload only when
\* the signature over message id, timestamp and body verifies against the
\* shared secret; for a signature that does not match and for malformed or
\* incomplete headers it raises the verification error and returns no payload.
C24_VerifyFailsClosed ==
    Verified =>
        /\ call.out.exc = "none" => SignatureVerifies /\ call.out.payload = call.arg.payload
        /\ ~SignatureVerifies =>
              call.out.exc = "WebhookVerificationError" /\ call.out.payload = None

\* a signature made with the shared secret over another body
C24_Witness ==
    /\ Verified
    /\ call.arg.secret = "k1"
    /\ call.arg.payload = "b2"
    /\ call.arg.headers.keys = HeaderKeys
    /\ call.arg.headers.version = "v1"
    /\ call.arg.headers.mac = hmac("k1", call.arg.headers.id, call.arg.headers.timestamp, "b1")
    /\ call.out.exc = "WebhookVerificationError"

====
